---- MODULE Spec2Model ----
(***************************************************************************)
(* valora / rainier: the Composition path-and-element builder and the      *)
(* RenderGate per-run render loop of rainier/src/lib.rs.                   *)
(*                                                                         *)
(* Points are pairs of numbers; the f32 products of the source are exact   *)
(* on the small integers used here.  A Path is the sequence of commands    *)
(* handed to the lyon Builder.                                             *)
(***************************************************************************)
EXTENDS Integers, Sequences, FiniteSets, TLC

VARIABLES
    pc,         \* position of the run: start, setup, loop, callback, ...
    opts,       \* Options of the run
    gate,       \* the RenderGate built by run()
    frame,      \* loop variable of render_frames
    comp,       \* the Composition of the current frame
    nops,       \* Composition calls made by the current callback invocation
    budget,     \* at most this many Composition calls per callback invocation
    calls,      \* history: the calls the current callback made, in order
    submitted,  \* device side: the Elements handed to the precompose in progress
    trace,      \* history: the steps of the render loop, in order
    dirs,       \* file system: directories
    files,      \* file system: files, each partial or complete
    result,     \* what the run returned to its caller
    sp,         \* geom::spawner: a spawn(s, src) call, its arguments and result
    dm,         \* pixel dimensions: options, RenderGate, texture, image, file
    rs,         \* raster: a polygon, its regions, the test's buffer
    pr          \* two runs writing files: targets, read-back, conversion, files

aux == <<sp, dm, rs, pr>>

vars == <<pc, opts, gate, frame, comp, nops, budget, calls, submitted, trace,
          dirs, files, result, sp, dm, rs, pr>>

\* The value of a part of the state that a specification does not use.
Unused == <<>>

-----------------------------------------------------------------------------
(* Bounds and input sets *)

MaxOps == 3
MaxCallbackOps == 2
MaxFrames == 2

P1 == <<1, 2>>
P2 == <<3, 1>>
MovePts == {P1}
LinePts == {P2}
QuadArgs == {<<P1, P2>>}
CubicArgs == {<<P2, P1, P2>>}

White == <<1, 1, 1, 1>>
Red == <<1, 0, 0, 1>>
Colors == {Red}
DefaultShader == "default_shader"
Shaders == {"custom_shader"}
Thicknesses == {3}
WorldScales == {1, 2}
SetScales == {4}
Seeds == {7}
Widths == {5}
Heights == {4}
Framerates == {0, 24}
Outputs == {<<>>, <<"out">>}      \* Option<PathBuf>: None, Some("out")

NoComposition == <<>>
NoGate == <<>>
NoResult == <<"running">>
Ok == <<"Ok">>
Err(e) == <<"Err", e>>
Panic(e) == <<"panic", e>>

-----------------------------------------------------------------------------
(* Composition *)

Mul(p, s) == <<p[1] * s, p[2] * s>>

Builder_new == <<>>
Cmd(verb, pts) == [verb |-> verb, pts |-> pts]

Fill == <<"Fill">>
Stroke(t) == <<"Stroke", t>>

Composition_new(default_shader) ==
    [path |-> Builder_new,
     shader |-> default_shader,
     color |-> White,
     scale |-> 1,
     stroke_thickness |-> 1,
     elements |-> <<>>]

set_scale_retro(c, scale) ==
    [c EXCEPT !.scale = scale,
              !.path = [i \in 1..Len(c.path) |->
                          Cmd(c.path[i].verb,
                              [j \in 1..Len(c.path[i].pts) |->
                                  <<(c.path[i].pts[j][1] \div c.scale) * scale,
                                    (c.path[i].pts[j][2] \div c.scale) * scale>>])]]

set_scale(c, scale) == [c EXCEPT !.scale = scale]

move_to_keep(c, dest) ==
    [c EXCEPT !.path = Append(c.path, Cmd("move_to", <<Mul(dest, c.scale)>>))]

move_to(c, dest) ==
    [c EXCEPT !.path = Append(Builder_new, Cmd("move_to", <<Mul(dest, c.scale)>>))]

line_to(c, dest) ==
    [c EXCEPT !.path = Append(c.path, Cmd("line_to", <<Mul(dest, c.scale)>>))]

quadratic_to(c, ctrl, end) ==
    [c EXCEPT !.path = Append(c.path,
        Cmd("quadratic_bezier_to", <<Mul(ctrl, c.scale), Mul(end, c.scale)>>))]

cubic_to(c, ctrl0, ctrl1, end) ==
    [c EXCEPT !.path = Append(c.path,
        Cmd("cubic_bezier_to",
            <<Mul(ctrl0, c.scale), Mul(ctrl1, c.scale), Mul(end, c.scale)>>))]

close_freeze(c) ==
    [c EXCEPT !.path = Builder_new,
              !.elements = Append(c.elements,
                              [path |-> Append(c.path, Cmd("close", <<>>)),
                               color |-> c.color,
                               shader |-> c.shader,
                               raster_method |-> Fill])]

close(c) == [c EXCEPT !.path = Append(c.path, Cmd("close", <<>>))]

set_color_retro(c, color) ==
    [c EXCEPT !.color = color,
              !.elements = [i \in 1..Len(c.elements) |->
                              [c.elements[i] EXCEPT !.color = color]]]

set_color(c, color) == [c EXCEPT !.color = color]

set_shader(c, shader) == [c EXCEPT !.shader = shader]

set_stroke_thickness(c, stroke_thickness) ==
    [c EXCEPT !.stroke_thickness = stroke_thickness]

push_element_noswap(c, raster_method) ==
    [c EXCEPT !.elements = Append(c.elements,
                              [path |-> c.path,
                               color |-> c.color,
                               shader |-> c.shader,
                               raster_method |-> raster_method])]

push_element(c, raster_method) ==
    [c EXCEPT !.path = Builder_new,
              !.elements = Append(c.elements,
                              [path |-> c.path,
                               color |-> c.color,
                               shader |-> c.shader,
                               raster_method |-> raster_method])]

fill(c) == push_element(c, Fill)

stroke(c) == push_element(c, Stroke(c.stroke_thickness))

\* The state of the run loop where a specification does not use it.
LoopIdle ==
    /\ pc = "idle"
    /\ opts = Unused
    /\ gate = NoGate
    /\ frame = 0
    /\ comp = NoComposition
    /\ nops = 0
    /\ budget = 0
    /\ calls = <<>>
    /\ submitted = <<>>
    /\ trace = <<>>
    /\ dirs = {}
    /\ files = {}
    /\ result = NoResult

loopvars == <<pc, opts, gate, frame, comp, nops, budget, calls, submitted, trace,
              dirs, files, result>>

World_from(options) ==
    [seed |-> options.seed,
     width |-> options.width,
     height |-> options.height,
     scale |-> options.scale,
     frames |-> options.frames]

\* impl Draw for World: the border, five line_to calls.
World_border(w) ==
    << <<0, 0>>, <<w.width, 0>>, <<w.width, w.height>>, <<0, w.height>>, <<0, 0>> >>

World_draw(w, c) ==
    LET b == World_border(w) IN
    line_to(line_to(line_to(line_to(line_to(c, b[1]), b[2]), b[3]), b[4]), b[5])

-----------------------------------------------------------------------------
(* run(): Options -> World, Gpu, RenderGate *)

\* Duration::from_secs_f64(1. / framerate), in nanoseconds.
Duration_millis(framerate) == 1000 \div framerate

Duration_from_secs_inv(framerate) == 1000000000 \div framerate

\* `x as u32` of the f32 x = n / d: truncated toward zero, negatives to 0.
\* (It saturates at u32::MAX, far above the values used here.)
as_u32_round(n, d) ==
    IF n < 0 THEN 0 ELSE (2 * n + d) \div (2 * d)

as_u32(n, d) == IF n < 0 THEN 0 ELSE n \div d

RenderGate_new(options) ==
    [world |-> World_from(options),
     width |-> as_u32(options.width * options.scale, 1),
     height |-> as_u32(options.height * options.scale, 1),
     wait |-> Duration_from_secs_inv(options.framerate),
     save_dir |-> options.output,
     frames |-> options.frames]

\* format!("{}", seed) and format!("{}.png", frame); PathBuf::push appends a component.
save_dir_for(base_path, seed) == Append(base_path, ToString(seed))

save_path_for_frame_seed(base_path, seed, frame_no) ==
    Append(save_dir_for(base_path, seed), ToString(seed) \o ".png")

save_path_for_frame(base_path, seed, frame_no) ==
    Append(save_dir_for(base_path, seed), ToString(frame_no) \o ".png")

\* create_dir_all creates the directory and every missing ancestor.
create_dir_all(ds, path) == ds \cup {SubSeq(path, 1, n) : n \in 1..Len(path)}

\* File::create truncates or creates; the encoder then writes the image.
file_create(fs, path) ==
    {f \in fs : f.path # path} \cup {[path |-> path, state |-> "partial"]}

file_complete(fs, path) ==
    {f \in fs : f.path # path} \cup {[path |-> path, state |-> "complete"]}

Event(ev, arg) == [ev |-> ev, frame |-> frame, arg |-> arg]
Log(ev) == trace' = Append(trace, Event(ev, 0))

\* The ? operator on an Err: render_frames returns the error at once.
Fail_retry(e) == pc' = "loop" /\ result' = result

Fail(e) == pc' = "aborted" /\ result' = Err(e)

\* expect()/unwrap() on a failure: the thread panics.
Panics(e) == pc' = "panicked" /\ result' = Panic(e)

\* Gpu::new()? / Gpu::with_window(..)? fails: run returns the error.
RunGpuFail ==
    /\ pc = "start"
    /\ pc' = "aborted"
    /\ result' = Err("gpu_new")
    /\ UNCHANGED <<aux, opts, gate, frame, comp, nops, budget, calls, submitted, trace,
                   dirs, files>>

RunPanic ==
    /\ pc = "start"
    /\ opts.framerate = 0
    /\ Panics("duration")
    /\ UNCHANGED <<aux, opts, gate, frame, comp, nops, budget, calls, submitted, trace,
                   dirs, files>>

Run ==
    /\ pc = "start"
    /\ opts.framerate # 0
    /\ gate' = RenderGate_new(opts)
    /\ pc' = "setup"
    /\ UNCHANGED <<aux, opts, frame, comp, nops, budget, calls, submitted, trace,
                   dirs, files, result>>

-----------------------------------------------------------------------------
(* RenderGate::render_frames *)

Live == gate.save_dir = <<>>

BuildTexture ==
    /\ pc = "setup"
    /\ Log("build_texture")
    /\ frame' = 0
    /\ pc' = "loop"
    /\ UNCHANGED <<aux, opts, gate, comp, nops, budget, calls, submitted, dirs, files, result>>

BuildTextureFail ==
    /\ pc = "setup"
    /\ Log("build_texture")
    /\ Fail("build_texture")
    /\ UNCHANGED <<aux, opts, gate, frame, comp, nops, budget, calls, submitted, dirs, files>>

NewComposition_unscaled(default_shader, scale) == Composition_new(default_shader)

\* let mut comp = Composition::new(default_shader.clone()); comp.set_scale(world.scale)
NewComposition(default_shader, scale) ==
    set_scale(Composition_new(default_shader), scale)

\* for frame in 0..(self.frames)
InRange_inclusive(i, frames) == i <= frames

InRange(i, frames) == i < frames

\* comp.elements.into_iter(): what precompose is handed.
Frozen_flush(c) == IF c.path # Builder_new THEN push_element(c, Fill).elements ELSE c.elements

Frozen(c) == c.elements

\* Loop head with a frame left: fresh Composition, then the callback is invoked.
InvokeCallback ==
    /\ pc = "loop"
    /\ InRange(frame, gate.frames)
    /\ comp' = NewComposition(DefaultShader, gate.world.scale)
    /\ nops' = 0
    /\ calls' = <<>>
    /\ trace' = Append(trace, Event("callback", frame))    \* FrameContext { frame }
    /\ pc' = "callback"
    /\ UNCHANGED <<aux, opts, gate, frame, budget, submitted, dirs, files, result>>

Done ==
    /\ pc = "loop"
    /\ ~InRange(frame, gate.frames)
    /\ pc' = "done"
    /\ result' = Ok
    /\ UNCHANGED <<aux, opts, gate, frame, comp, nops, budget, calls, submitted, trace,
                   dirs, files>>

-----------------------------------------------------------------------------
(* The per-frame callback: Composition calls of the caller's code *)

CallRec(op, args) == [op |-> op, args |-> args]

Call(cs, c) ==
    /\ pc = "callback"
    /\ nops < budget
    /\ comp' = c
    /\ calls' = calls \o cs
    /\ nops' = nops + 1
    /\ UNCHANGED <<aux, pc, opts, gate, frame, budget, submitted, trace, dirs, files, result>>

MoveTo == \E p \in MovePts : Call(<<CallRec("move_to", <<p>>)>>, move_to(comp, p))

LineTo == \E p \in LinePts : Call(<<CallRec("line_to", <<p>>)>>, line_to(comp, p))

QuadraticTo ==
    \E a \in QuadArgs : Call(<<CallRec("quadratic_to", a)>>, quadratic_to(comp, a[1], a[2]))

CubicTo ==
    \E a \in CubicArgs : Call(<<CallRec("cubic_to", a)>>, cubic_to(comp, a[1], a[2], a[3]))

Close == Call(<<CallRec("close", <<>>)>>, close(comp))

SetColor == \E v \in Colors : Call(<<CallRec("set_color", <<v>>)>>, set_color(comp, v))

SetShader == \E s \in Shaders : Call(<<CallRec("set_shader", <<s>>)>>, set_shader(comp, s))

SetStrokeThickness ==
    \E t \in Thicknesses :
        Call(<<CallRec("set_stroke_thickness", <<t>>)>>, set_stroke_thickness(comp, t))

SetScale == \E s \in SetScales : Call(<<CallRec("set_scale", <<s>>)>>, set_scale(comp, s))

DoFill == Call(<<CallRec("fill", <<>>)>>, fill(comp))

DoStroke == Call(<<CallRec("stroke", <<>>)>>, stroke(comp))

\* comp.draw(world): Composition::draw delegates to World::draw.
DrawWorld ==
    Call([i \in 1..5 |-> CallRec("line_to", <<World_border(gate.world)[i]>>)],
         World_draw(gate.world, comp))

CallbackStep ==
    \/ MoveTo \/ LineTo \/ QuadraticTo \/ CubicTo \/ Close
    \/ SetColor \/ SetShader \/ SetStrokeThickness \/ SetScale
    \/ DoFill \/ DoStroke \/ DrawWorld

-----------------------------------------------------------------------------
(* File output: precompose into the texture, read back, convert, save *)

PrecomposeTexture ==
    /\ pc = "callback"
    /\ ~Live
    /\ trace' = Append(trace, Event("precompose_texture", Len(Frozen(comp))))
    /\ submitted' = Frozen(comp)
    /\ comp' = NoComposition
    /\ pc' = "readback"
    /\ UNCHANGED <<aux, opts, gate, frame, nops, budget, calls, dirs, files, result>>

PrecomposeTextureFail ==
    /\ pc = "callback"
    /\ ~Live
    /\ trace' = Append(trace, Event("precompose_texture", Len(Frozen(comp))))
    /\ Fail("precompose")
    /\ comp' = NoComposition
    /\ calls' = <<>>
    /\ UNCHANGED <<aux, opts, gate, frame, nops, budget, submitted, dirs, files>>

ReadToRam ==
    /\ pc = "readback"
    /\ Log("read_to_ram")
    /\ submitted' = <<>>
    /\ calls' = <<>>
    /\ pc' = "convert"
    /\ UNCHANGED <<aux, opts, gate, frame, comp, nops, budget, dirs, files, result>>

ReadToRamFail ==
    /\ pc = "readback"
    /\ Log("read_to_ram")
    /\ Fail("read_to_ram")
    /\ submitted' = <<>>
    /\ calls' = <<>>
    /\ UNCHANGED <<aux, opts, gate, frame, comp, nops, budget, dirs, files>>

Convert ==
    /\ pc = "convert"
    /\ Log("convert")
    /\ pc' = "mkdir"
    /\ UNCHANGED <<aux, opts, gate, frame, comp, nops, budget, calls, submitted, dirs, files,
                   result>>

\* save_path_for_frame is evaluated first and creates the seed directory.
CreateDir ==
    /\ pc = "mkdir"
    /\ Log("create_dir_all")
    /\ dirs' = create_dir_all(dirs, save_dir_for(gate.save_dir, gate.world.seed))
    /\ pc' = "open"
    /\ UNCHANGED <<aux, opts, gate, frame, comp, nops, budget, calls, submitted, files, result>>

CreateDirFail ==
    /\ pc = "mkdir"
    /\ Log("create_dir_all")
    /\ Panics("create_dir_all")
    /\ UNCHANGED <<aux, opts, gate, frame, comp, nops, budget, calls, submitted, dirs, files>>

SavePath == save_path_for_frame(gate.save_dir, gate.world.seed, frame)

\* image.save(path): the file is created (or truncated), then encoded into.
SaveOpen ==
    /\ pc = "open"
    /\ Log("save")
    /\ files' = file_create(files, SavePath)
    /\ pc' = "writing"
    /\ UNCHANGED <<aux, opts, gate, frame, comp, nops, budget, calls, submitted, dirs, result>>

SaveOpenFail ==
    /\ pc = "open"
    /\ Log("save")
    /\ Fail("save")
    /\ UNCHANGED <<aux, opts, gate, frame, comp, nops, budget, calls, submitted, dirs, files>>

SaveFinish ==
    /\ pc = "writing"
    /\ Log("saved")
    /\ files' = file_complete(files, SavePath)
    /\ frame' = frame + 1
    /\ pc' = "loop"
    /\ UNCHANGED <<aux, opts, gate, comp, nops, budget, calls, submitted, dirs, result>>

\* The write fails after the file was created: save returns Err, the file stays.
SaveWriteFail ==
    /\ pc = "writing"
    /\ Fail("save")
    /\ UNCHANGED <<aux, opts, gate, frame, comp, nops, budget, calls, submitted, trace,
                   dirs, files>>

-----------------------------------------------------------------------------
(* Live: precompose against the window frame, present, sleep *)

GetFrame ==
    /\ pc = "callback"
    /\ Live
    /\ Log("get_frame")
    /\ pc' = "live_compose"
    /\ UNCHANGED <<aux, opts, gate, frame, comp, nops, budget, calls, submitted, dirs, files,
                   result>>

GetFrameFail ==
    /\ pc = "callback"
    /\ Live
    /\ Log("get_frame")
    /\ Panics("get_frame")
    /\ comp' = NoComposition
    /\ calls' = <<>>
    /\ UNCHANGED <<aux, opts, gate, frame, nops, budget, submitted, dirs, files>>

PrecomposeWindow ==
    /\ pc = "live_compose"
    /\ trace' = Append(trace, Event("precompose_window", Len(Frozen(comp))))
    /\ submitted' = Frozen(comp)
    /\ comp' = NoComposition
    /\ pc' = "present"
    /\ UNCHANGED <<aux, opts, gate, frame, nops, budget, calls, dirs, files, result>>

PrecomposeWindowFail ==
    /\ pc = "live_compose"
    /\ trace' = Append(trace, Event("precompose_window", Len(Frozen(comp))))
    /\ Fail("precompose")
    /\ comp' = NoComposition
    /\ calls' = <<>>
    /\ UNCHANGED <<aux, opts, gate, frame, nops, budget, submitted, dirs, files>>

\* frame.finish(): the window frame is presented.
Finish ==
    /\ pc = "present"
    /\ Log("finish")
    /\ submitted' = <<>>
    /\ calls' = <<>>
    /\ pc' = "sleep"
    /\ UNCHANGED <<aux, opts, gate, frame, comp, nops, budget, dirs, files, result>>

\* std::thread::sleep(self.wait), then the next iteration.
Sleep ==
    /\ pc = "sleep"
    /\ trace' = Append(trace, Event("sleep", gate.wait))
    /\ frame' = frame + 1
    /\ pc' = "loop"
    /\ UNCHANGED <<aux, opts, gate, comp, nops, budget, calls, submitted, dirs, files, result>>

-----------------------------------------------------------------------------
(* Specifications *)

OptionsSet ==
    [seed : Seeds, width : Widths, height : Heights, scale : WorldScales,
     frames : 0..MaxFrames, framerate : Framerates, output : Outputs]

Init ==
    /\ pc = "start"
    /\ opts \in OptionsSet
    /\ gate = NoGate
    /\ frame = 0
    /\ comp = NoComposition
    /\ nops = 0
    /\ budget = MaxCallbackOps
    /\ calls = <<>>
    /\ submitted = <<>>
    /\ trace = <<>>
    /\ dirs = {}
    /\ files = {}
    /\ result = NoResult
    /\ sp = Unused /\ dm = Unused /\ rs = Unused /\ pr = Unused

Next ==
    \/ RunGpuFail \/ RunPanic \/ Run
    \/ BuildTexture \/ BuildTextureFail
    \/ InvokeCallback \/ Done
    \/ CallbackStep
    \/ PrecomposeTexture \/ PrecomposeTextureFail
    \/ ReadToRam \/ ReadToRamFail
    \/ Convert
    \/ CreateDir \/ CreateDirFail
    \/ SaveOpen \/ SaveOpenFail \/ SaveFinish \/ SaveWriteFail
    \/ GetFrame \/ GetFrameFail
    \/ PrecomposeWindow \/ PrecomposeWindowFail
    \/ Finish \/ Sleep

Spec == Init /\ [][Next]_vars

\* One callback invocation on its own: the Composition the callback of frame 0
\* receives, and up to MaxOps calls on it.
InitComposition ==
    /\ pc = "callback"
    /\ opts \in {o \in OptionsSet : o.frames = 1 /\ o.framerate # 0}
    /\ gate = RenderGate_new(opts)
    /\ frame = 0
    /\ comp = NewComposition(DefaultShader, opts.scale)
    /\ nops = 0
    /\ budget = MaxOps
    /\ calls = <<>>
    /\ submitted = <<>>
    /\ trace = <<[ev |-> "build_texture", frame |-> 0, arg |-> 0],
                 [ev |-> "callback", frame |-> 0, arg |-> 0]>>
    /\ dirs = {}
    /\ files = {}
    /\ result = NoResult
    /\ sp = Unused /\ dm = Unused /\ rs = Unused /\ pr = Unused

SpecComposition == InitComposition /\ [][CallbackStep]_vars

-----------------------------------------------------------------------------
(* What a sequence of Composition calls asks for, read off the calls alone *)

Max(S) == CHOOSE x \in S : \A y \in S : y <= x

DrawOps == {"move_to", "line_to", "quadratic_to", "cubic_to", "close"}
FreezeOps == {"fill", "stroke"}

VerbOf(op) ==
    CASE op = "move_to" -> "move_to"
      [] op = "line_to" -> "line_to"
      [] op = "quadratic_to" -> "quadratic_bezier_to"
      [] op = "cubic_to" -> "cubic_bezier_to"
      [] op = "close" -> "close"

\* The argument of the last call of `op` before call k, or `default` if none.
LastArg(cs, k, op, default) ==
    LET I == {j \in 1..(k - 1) : cs[j].op = op}
    IN  IF I = {} THEN default ELSE cs[Max(I)].args[1]

ScaleAt(cs, k) == LastArg(cs, k, "set_scale", gate.world.scale)
ColorAt(cs, k) == LastArg(cs, k, "set_color", White)
ShaderAt(cs, k) == LastArg(cs, k, "set_shader", DefaultShader)
ThicknessAt(cs, k) == LastArg(cs, k, "set_stroke_thickness", 1)

FreezeIdx(cs) == {k \in 1..Len(cs) : cs[k].op \in FreezeOps}

NthFreeze(cs, n) ==
    CHOOSE k \in FreezeIdx(cs) : Cardinality({j \in FreezeIdx(cs) : j <= k}) = n

FreezeOrd(cs, k) == Cardinality({j \in FreezeIdx(cs) : j <= k})

\* Where the path in progress at call k began: after the last fill/stroke, or at
\* the last move_to, whichever is later.
PathStart(cs, k) ==
    Max({1} \cup {j + 1 : j \in {i \in FreezeIdx(cs) : i < k}}
            \cup {j \in 1..(k - 1) : cs[j].op = "move_to"})

RECURSIVE DrawIdx(_, _, _)
DrawIdx(cs, i, k) ==
    IF i >= k THEN <<>>
    ELSE (IF cs[i].op \in DrawOps THEN <<i>> ELSE <<>>) \o DrawIdx(cs, i + 1, k)

\* The drawing calls that make up the path in progress at call k.
PendingIdx(cs, k) == DrawIdx(cs, PathStart(cs, k), k)

Scaled(cs, j) ==
    Cmd(VerbOf(cs[j].op),
        [q \in 1..Len(cs[j].args) |-> Mul(cs[j].args[q], ScaleAt(cs, j))])

AccumulatedAt(cs, k) ==
    LET D == PendingIdx(cs, k) IN [m \in 1..Len(D) |-> Scaled(cs, D[m])]

MethodAt(cs, k) ==
    IF cs[k].op = "fill" THEN Fill ELSE Stroke(ThicknessAt(cs, k))

-----------------------------------------------------------------------------
(* Claims on the Composition, under SpecComposition *)

\* C1: fill() or stroke() after N drawing calls appends exactly one Element per
\* call, whose path is the segments accumulated in the path in progress (a
\* move_to restarts the accumulation), and leaves the path in progress empty; a
\* fill()/stroke() with no drawing call since the last one appends an Element
\* with an empty path.
C1_FreezeAppendsAccumulatedPath ==
    pc = "callback" =>
        /\ Len(comp.elements) = Cardinality(FreezeIdx(calls))
        /\ \A n \in 1..Len(comp.elements) :
              comp.elements[n].path = AccumulatedAt(calls, NthFreeze(calls, n))
        /\ (calls # <<>> /\ calls[Len(calls)].op \in FreezeOps) => comp.path = Builder_new
        /\ \A k0, k \in FreezeIdx(calls) :
              (k0 < k /\ \A j \in (k0 + 1)..(k - 1) : calls[j].op \notin DrawOps)
              => comp.elements[FreezeOrd(calls, k)].path = Builder_new

C1_Witness ==
    /\ pc = "callback"
    /\ Len(calls) = 3
    /\ calls[1].op \in DrawOps
    /\ calls[2].op = "fill"
    /\ calls[3].op = "fill"
    /\ Len(comp.elements) = 2
    /\ Len(comp.elements[1].path) = 1
    /\ comp.elements[2].path = Builder_new
    /\ comp.path = Builder_new

\* C2: an Element, once appended, is never changed by a later Composition call,
\* and carries the color, shader and raster method (Fill, or Stroke with the
\* thickness) that were current when its fill()/stroke() was called.
C2_MutationIsolation ==
    [][(pc = "callback" /\ pc' = "callback") =>
        /\ Len(comp'.elements) >= Len(comp.elements)
        /\ \A i \in 1..Len(comp.elements) : comp'.elements[i] = comp.elements[i]
        /\ \A n \in 1..Len(comp'.elements) :
              LET k == NthFreeze(calls', n) IN
              /\ comp'.elements[n].color = ColorAt(calls', k)
              /\ comp'.elements[n].shader = ShaderAt(calls', k)
              /\ comp'.elements[n].raster_method = MethodAt(calls', k)]_vars

C2_Witness ==
    /\ pc = "callback"
    /\ Len(comp.elements) = 1
    /\ comp.elements[1].color = White
    /\ comp.color = Red
    /\ comp.elements[1].raster_method = Stroke(1)
    /\ comp.stroke_thickness = 3

\* C3: every point of the path in progress and of every frozen path is the
\* argument of its drawing call multiplied by the scale in force at that call; a
\* later set_scale does not rescale it.
C3_ScaleAtCallTime ==
    pc = "callback" =>
        /\ LET D == PendingIdx(calls, Len(calls) + 1) IN
           /\ Len(comp.path) = Len(D)
           /\ \A m \in 1..Len(D) : \A q \in 1..Len(calls[D[m]].args) :
                 comp.path[m].pts[q] = Mul(calls[D[m]].args[q], ScaleAt(calls, D[m]))
        /\ \A n \in 1..Len(comp.elements) :
              LET D == PendingIdx(calls, NthFreeze(calls, n)) IN
              /\ Len(comp.elements[n].path) = Len(D)
              /\ \A m \in 1..Len(D) : \A q \in 1..Len(calls[D[m]].args) :
                    comp.elements[n].path[m].pts[q]
                        = Mul(calls[D[m]].args[q], ScaleAt(calls, D[m]))

\* line_to(p) with scale 2, then set_scale(4), then fill(): the point is p*2.
C3_Witness ==
    /\ pc = "callback"
    /\ gate.world.scale = 2
    /\ Len(calls) = 3
    /\ calls[1].op = "line_to"
    /\ calls[2] = CallRec("set_scale", <<4>>)
    /\ calls[3].op = "fill"
    /\ comp.scale = 4
    /\ comp.elements[1].path[1].pts[1] = Mul(calls[1].args[1], 2)
    /\ comp.elements[1].path[1].pts[1] # Mul(calls[1].args[1], 4)

-----------------------------------------------------------------------------
(* Claims on the render loop, under Spec *)

Events(names) == SelectSeq(trace, LAMBDA e : e.ev \in names)

FileOutput == opts.output # <<>>

\* <output>/<seed>/<i>.png
ExpectedFile(i) == opts.output \o <<ToString(opts.seed), ToString(i) \o ".png">>

\* C4: a run with an output directory that ends without error has written exactly
\* the files 0.png .. (N-1).png under <output>/<seed>/, each frame once, nothing else.
C4_ExactlyNFiles ==
    (pc = "done" /\ FileOutput) =>
        /\ files = {[path |-> ExpectedFile(i), state |-> "complete"] :
                        i \in 0..(opts.frames - 1)}
        /\ Cardinality(files) = opts.frames
        /\ LET W == Events({"saved"}) IN
           /\ Len(W) = opts.frames
           /\ \A i \in 1..Len(W) : W[i].frame = i - 1

C4_Witness ==
    /\ pc = "done"
    /\ FileOutput
    /\ opts.frames = 2
    /\ result = Ok
    /\ {f.path : f \in files} = {<<"out", "7", "0.png">>, <<"out", "7", "1.png">>}

\* C5: the callback is invoked for frames 0, 1, 2, ... in this order, once each,
\* with FrameContext.frame the frame index; a run that returns Ok has invoked it
\* exactly frame_count times (never, for frame_count = 0).
C5_FramesInOrder ==
    LET cb == Events({"callback"}) IN
    /\ \A i \in 1..Len(cb) : cb[i].frame = i - 1 /\ cb[i].arg = i - 1
    /\ Len(cb) <= opts.frames
    /\ pc = "callback" => Len(cb) = frame + 1
    /\ pc = "loop" => Len(cb) = frame
    /\ pc = "done" => result = Ok /\ Len(cb) = opts.frames /\ frame = opts.frames

C5_Witness ==
    /\ pc = "done"
    /\ opts.frames = 2
    /\ Len(Events({"callback"})) = 2

\* C6: when the callback is invoked, for any frame, its Composition has no
\* Elements, no path in progress, the default shader, color and stroke thickness,
\* and the World's scale.
C6_FreshComposition ==
    (pc = "callback" /\ nops = 0) =>
        /\ comp.elements = <<>>
        /\ comp.path = <<>>
        /\ comp.shader = DefaultShader
        /\ comp.color = White
        /\ comp.stroke_thickness = 1
        /\ comp.scale = opts.scale

\* Frame 1 is entered after frame 0's callback froze Elements.
C6_Witness ==
    /\ pc = "callback"
    /\ nops = 0
    /\ frame = 1
    /\ opts.scale = 2
    /\ \E i \in 1..Len(trace) :
          /\ trace[i].ev \in {"precompose_texture", "precompose_window"}
          /\ trace[i].frame = 0
          /\ trace[i].arg = 2
    /\ comp.elements = <<>>

\* C7: the Elements handed to the device for a frame are the Elements frozen by
\* the fill()/stroke() calls of that frame's callback, one per call, in call
\* order; segments still in progress at the end of the callback add nothing.
C7_SubmittedAreFrozen ==
    pc \in {"readback", "present"} =>
        /\ Len(submitted) = Cardinality(FreezeIdx(calls))
        /\ \A n \in 1..Len(submitted) :
              LET k == NthFreeze(calls, n) IN
              submitted[n] = [path |-> AccumulatedAt(calls, k),
                              color |-> ColorAt(calls, k),
                              shader |-> ShaderAt(calls, k),
                              raster_method |-> MethodAt(calls, k)]

\* One Element frozen, then a segment left in progress: one Element submitted.
C7_Witness ==
    /\ pc \in {"readback", "present"}
    /\ Len(calls) = 2
    /\ calls[1].op \in FreezeOps
    /\ calls[2].op \in DrawOps
    /\ Len(submitted) = 1

StepOfError(e) ==
    CASE e = "build_texture" -> {"build_texture"}
      [] e = "precompose" -> {"precompose_texture", "precompose_window"}
      [] e = "read_to_ram" -> {"read_to_ram"}
      [] e = "save" -> {"save"}

C9_NoPartialFile ==
    pc \in {"aborted", "panicked"} =>
        \A f \in files : f.path = ExpectedFile(frame) => f.state = "complete"

LivePattern == <<"callback", "precompose_window", "finish", "sleep">>

\* C10: in live mode the steps callback, precompose against the window, present,
\* sleep follow each other in this order once per frame, the sleep lasting
\* 1/framerate seconds and ending before the next iteration; no directory and no
\* file is created.
C10_LiveFrameOrder ==
    ~FileOutput =>
        /\ dirs = {}
        /\ files = {}
        /\ LET L == Events({"callback", "precompose_window", "finish", "sleep"}) IN
           /\ \A i \in 1..Len(L) :
                 /\ L[i].ev = LivePattern[((i - 1) % 4) + 1]
                 /\ L[i].frame = (i - 1) \div 4
                 /\ L[i].ev = "sleep" => L[i].arg = 1000000000 \div opts.framerate
           /\ pc = "loop" => Len(L) = 4 * frame
        /\ Events({"precompose_texture", "read_to_ram", "convert", "create_dir_all",
                   "save", "saved"}) = <<>>

C10_Witness ==
    /\ ~FileOutput
    /\ pc = "done"
    /\ opts.frames = 2
    /\ Len(Events({"sleep"})) = 2

-----------------------------------------------------------------------------
(* Further claims on the Composition, under SpecComposition *)

MoveIdx(cs, lo, hi) == {j \in lo..hi : cs[j].op = "move_to"}

\* The fill/stroke call before call k, or 0.
PrevFreeze(cs, k) == Max({0} \cup {j \in FreezeIdx(cs) : j < k})

\* C15: right after move_to(p) the path in progress is that move-to alone, at
\* p * scale; a frozen path holds at most one move-to, as its first command, and
\* none of the drawing calls made before the last move_to of its stretch.
C15_MoveToRestartsPath ==
    pc = "callback" =>
        /\ (calls # <<>> /\ calls[Len(calls)].op = "move_to") =>
              comp.path = <<Cmd("move_to",
                                <<Mul(calls[Len(calls)].args[1],
                                      ScaleAt(calls, Len(calls)))>>)>>
        /\ \A m \in 1..Len(comp.path) : comp.path[m].verb = "move_to" => m = 1
        /\ \A n \in 1..Len(comp.elements) :
              LET k == NthFreeze(calls, n)
                  M == MoveIdx(calls, PrevFreeze(calls, k) + 1, k - 1)
                  p == comp.elements[n].path
              IN  /\ \A m \in 1..Len(p) : p[m].verb = "move_to" => m = 1
                  /\ M # {} =>
                        /\ p[1].verb = "move_to"
                        /\ Len(p) = Cardinality({j \in Max(M)..(k - 1) :
                                                    calls[j].op \in DrawOps})

\* line_to, then move_to, then fill: the Element holds the move-to alone.
C15_Witness ==
    /\ pc = "callback"
    /\ Len(calls) = 3
    /\ calls[1].op = "line_to"
    /\ calls[2].op = "move_to"
    /\ calls[3].op \in FreezeOps
    /\ Len(comp.elements) = 1
    /\ Len(comp.elements[1].path) = 1

\* A path is well formed: a move-to first and nowhere else, then segments, and a
\* close, if any, last.  (The empty path, one with no subpath, is let through.)
WellFormedPath(p) ==
    p # <<>> =>
        /\ p[1].verb = "move_to"
        /\ \A m \in 2..Len(p) : p[m].verb # "move_to"
        /\ \A m \in 1..Len(p) : p[m].verb = "close" => m = Len(p)

\* C16: every path frozen into an Element is a well-formed Path.
C16_FrozenPathsWellFormed ==
    pc = "callback" =>
        \A n \in 1..Len(comp.elements) : WellFormedPath(comp.elements[n].path)

\* C18: a drawing call or a setter leaves the Element list as it is; fill() and
\* stroke() append exactly one Element, keep the earlier ones in place, and leave
\* the current color, shader, stroke thickness and scale as they are.
C18_FrameEffects ==
    [][(pc = "callback" /\ pc' = "callback" /\ calls' # calls) =>
        LET op == calls'[Len(calls')].op IN
        /\ op \notin FreezeOps => comp'.elements = comp.elements
        /\ op \in FreezeOps =>
              /\ Len(comp'.elements) = Len(comp.elements) + 1
              /\ SubSeq(comp'.elements, 1, Len(comp.elements)) = comp.elements
              /\ comp'.color = comp.color
              /\ comp'.shader = comp.shader
              /\ comp'.stroke_thickness = comp.stroke_thickness
              /\ comp'.scale = comp.scale]_vars

\* stroke, then segments closed without freezing them: still one Element.
C18_Witness ==
    /\ pc = "callback"
    /\ Len(calls) = 3
    /\ calls[1].op = "stroke"
    /\ calls[2].op \in DrawOps
    /\ calls[3].op = "close"
    /\ Len(comp.elements) = 1
    /\ Len(comp.path) = 2

-----------------------------------------------------------------------------
(* Further claims on the render loop, under Spec *)

\* C17: a live run allocates no offscreen texture and cannot end with a texture
\* allocation error.
C17_NoTextureInLive ==
    ~FileOutput =>
        /\ Events({"build_texture"}) = <<>>
        /\ result # Err("build_texture")

-----------------------------------------------------------------------------
(* geom/spawner.rs *)

MaxSpawnPoints == 3
SpawnPts == {<<0, 0>>, <<2, 0>>, <<1, 3>>}
Prototypes == {[shape |-> "square", at |-> <<9, 9>>, tag |-> 0 - 1]}
Modifiers == {"None", "tag_with_index"}

SeqsUpTo(S, n) == UNION {[1..k -> S] : k \in 0..n}

\* Place::place, of the geom crate: the geometry moved to the point.
place(g, point) == [g EXCEPT !.at = point]

\* The Box<Fn(&G, Point, usize) -> G> of an Instancer, when it has one.
apply_f(f, instance, point, index) == [instance EXCEPT !.tag = index]

Instancer_new(src) == [src |-> src, f |-> "None"]

Instancer_spawn(self, point, index) ==
    LET instance == place(self.src, point)
    IN  IF self.f = "None" THEN instance ELSE apply_f(self.f, instance, point, index)

\* impl<P: Poly> SpawnSrc for P
spawn_points(src) == src.vertices

spawn_reversed(s, src) ==
    LET pts == spawn_points(src)
    IN  [i \in 1..Len(pts) |-> Instancer_spawn(s, pts[Len(pts) + 1 - i], i - 1)]

\* .iter().enumerate().map(|(i, p)| s.spawn(*p, i)).collect()
spawn(s, src) ==
    LET pts == spawn_points(src)
    IN  [i \in 1..Len(pts) |-> Instancer_spawn(s, pts[i], i - 1)]

InitSpawn ==
    /\ LoopIdle
    /\ dm = Unused /\ rs = Unused /\ pr = Unused
    /\ sp \in [pc : {"ready"},
               s : {Instancer_new(g) : g \in Prototypes}
                       \cup {[src |-> g, f |-> m] : g \in Prototypes, m \in Modifiers},
               src : {[vertices |-> v] : v \in SeqsUpTo(SpawnPts, MaxSpawnPoints)},
               out : {<<>>}]

SpawnCall ==
    /\ sp.pc = "ready"
    /\ sp' = [sp EXCEPT !.pc = "spawned", !.out = spawn(sp.s, sp.src)]
    /\ UNCHANGED <<loopvars, dm, rs, pr>>

SpecSpawn == InitSpawn /\ [][SpawnCall]_vars

\* C20: spawn(s, src) returns one instance per spawn point, in the order of the
\* source's vertices, the i-th made from p_i and index i; without a modifier
\* function it is the prototype placed at p_i; the prototype is left as it was.
C20_SpawnPerPointInOrder ==
    [][(sp.pc = "ready" /\ sp'.pc = "spawned") =>
        /\ sp'.s = sp.s
        /\ sp'.src = sp.src
        /\ Len(sp'.out) = Len(sp.src.vertices)
        /\ \A i \in 1..Len(sp'.out) :
              /\ sp'.out[i].at = sp.src.vertices[i]
              /\ sp'.out[i].shape = sp.s.src.shape
              /\ sp.s.f = "None" => sp'.out[i] = [sp.s.src EXCEPT !.at = sp.src.vertices[i]]
              /\ sp.s.f # "None" => sp'.out[i].tag = i - 1]_vars

C20_Witness ==
    /\ sp # Unused
    /\ sp.pc = "spawned"
    /\ sp.s.f = "None"
    /\ Len(sp.out) = 3
    /\ sp.src.vertices = << <<0, 0>>, <<2, 0>>, <<1, 3>> >>
    /\ sp.out[2].at = <<2, 0>>
    /\ sp.s.src.at = <<9, 9>>

-----------------------------------------------------------------------------
(* Pixel dimensions, from the Options to the file, for scales n/d *)

MaxDim == 3
MaxScaleNum == 4
ScaleDens == {1, 2}

NoDims == <<>>
Dims(w, h) == [w |-> w, h |-> h]

\* run(): (options.width as f32 * options.scale) as u32, and the same for height.
gate_dims(o) ==
    Dims(as_u32(o.width * o.scale_num, o.scale_den),
         as_u32(o.height * o.scale_num, o.scale_den))

\* Gpu::build_texture(width, height): a render target of the given dimensions.
build_texture(w, h) == Dims(w, h)

\* Gpu::read_to_ram(&texture): the texture as a flat row-major RGBA buffer.
read_to_ram_len(tex) == tex.w * tex.h * 4

\* ImageBuffer::from_raw(width, height, data): None when data is too short.
from_raw(w, h, len) == IF len >= w * h * 4 THEN Dims(w, h) ELSE NoDims

InitDims ==
    /\ LoopIdle
    /\ sp = Unused /\ rs = Unused /\ pr = Unused
    /\ dm \in [pc : {"run"},
               options : [width : 0..MaxDim, height : 0..MaxDim,
                          scale_num : 0..MaxScaleNum, scale_den : ScaleDens],
               gate : {NoDims}, texture : {NoDims}, raw_len : {0},
               image : {NoDims}, file : {NoDims}]

DimRun ==
    /\ dm.pc = "run"
    /\ dm' = [dm EXCEPT !.pc = "setup", !.gate = gate_dims(dm.options)]
    /\ UNCHANGED <<loopvars, sp, rs, pr>>

DimBuildTexture ==
    /\ dm.pc = "setup"
    /\ dm' = [dm EXCEPT !.pc = "readback",
                        !.texture = build_texture(dm.gate.w, dm.gate.h)]
    /\ UNCHANGED <<loopvars, sp, rs, pr>>

DimReadToRam ==
    /\ dm.pc = "readback"
    /\ dm' = [dm EXCEPT !.pc = "convert", !.raw_len = read_to_ram_len(dm.texture)]
    /\ UNCHANGED <<loopvars, sp, rs, pr>>

DimFromRaw ==
    /\ dm.pc = "convert"
    /\ LET img == from_raw(dm.gate.w, dm.gate.h, dm.raw_len) IN
       dm' = [dm EXCEPT !.pc = IF img = NoDims THEN "panicked" ELSE "save",
                        !.image = img]
    /\ UNCHANGED <<loopvars, sp, rs, pr>>

DimSave ==
    /\ dm.pc = "save"
    /\ dm' = [dm EXCEPT !.pc = "saved", !.file = dm.image]
    /\ UNCHANGED <<loopvars, sp, rs, pr>>

NextDims == DimRun \/ DimBuildTexture \/ DimReadToRam \/ DimFromRaw \/ DimSave

SpecDims == InitDims /\ [][NextDims]_vars

\* C13 as stated: the file is exactly width*scale by height*scale pixels, for
\* every width, height and scale.
C13_ExactDims ==
    dm.pc = "saved" =>
        /\ dm.file.w * dm.options.scale_den = dm.options.width * dm.options.scale_num
        /\ dm.file.h * dm.options.scale_den = dm.options.height * dm.options.scale_num

\* C13 as amended: the file is width*scale by height*scale pixels, each truncated
\* toward zero to a whole number; every frame with output enabled is saved with
\* these dimensions.
C13_TruncatedDims ==
    /\ dm.pc # "panicked"
    /\ dm.pc = "saved" =>
        LET o == dm.options IN
        /\ dm.file.w * o.scale_den <= o.width * o.scale_num
        /\ o.width * o.scale_num < (dm.file.w + 1) * o.scale_den
        /\ dm.file.h * o.scale_den <= o.height * o.scale_num
        /\ o.height * o.scale_num < (dm.file.h + 1) * o.scale_den

\* width 3, height 2, scale 3/2: 4.5 by 3 becomes 4 by 3.
C13_Witness ==
    /\ dm # Unused
    /\ dm.pc = "saved"
    /\ dm.options = [width |-> 3, height |-> 2, scale_num |-> 3, scale_den |-> 2]
    /\ dm.file = Dims(4, 3)

-----------------------------------------------------------------------------
(* raster.rs: the scanline rasterizer (regions, grid lines) and the test that
   shades its Boundary regions into a Buffer.  A vertex is <<X, y>> with X its
   x-coordinate in thirds of a pixel and y a whole scanline. *)

MaxCoord == 2
BufferWidth == 200
BufferHeight == 200
LastRow == 199

RasterPts == {<<X, y>> : X \in 0..(3 * MaxCoord), y \in 0..MaxCoord}
PtBefore(a, b) == a[1] < b[1] \/ (a[1] = b[1] /\ a[2] < b[2])
VertexLists ==
    {<<a, b>> : a, b \in RasterPts} \cup {<<a, b, c>> : a, b, c \in RasterPts}

\* Polygon::try_from(vec): fewer than 3 vertices is a construction error.
Polygon_try_from(v) == IF Len(v) < 3 THEN Err("polygon") ELSE <<"Ok", v>>

MinOf(S) == CHOOSE m \in S : \A n \in S : m <= n
MaxOf(S) == CHOOSE m \in S : \A n \in S : n <= m
XsOf(P) == {P[i][1] : i \in 1..Len(P)}
YsOf(P) == {P[i][2] : i \in 1..Len(P)}

\* The edge from vertex i to the next one, oriented from its lower end.
EdgeLo(P, i) ==
    LET a == P[i] b == P[(i % Len(P)) + 1] IN IF a[2] <= b[2] THEN a ELSE b
EdgeHi(P, i) ==
    LET a == P[i] b == P[(i % Len(P)) + 1] IN IF a[2] <= b[2] THEN b ELSE a

\* An edge crosses scanline y when y is in [lower end, upper end); a horizontal
\* edge crosses nothing.
Crosses(P, i, y) == EdgeLo(P, i)[2] <= y /\ y < EdgeHi(P, i)[2]

\* The x-intercept of edge i with scanline y, in thirds, is XNum / XDen.
XDen(P, i) == EdgeHi(P, i)[2] - EdgeLo(P, i)[2]
XNum(P, i, y) ==
    EdgeLo(P, i)[1] * XDen(P, i)
        + (y - EdgeLo(P, i)[2]) * (EdgeHi(P, i)[1] - EdgeLo(P, i)[1])

Abs(n) == IF n < 0 THEN 0 - n ELSE n

\* Pixel x is within half a pixel of the crossing of edge i.
NearCrossing(P, i, y, x) ==
    Abs(6 * XDen(P, i) * x - 2 * XNum(P, i, y)) <= 3 * XDen(P, i)

\* The crossings of scanline y strictly left of pixel x.
CrossingsLeft(P, y, x) ==
    {i \in 1..Len(P) : Crosses(P, i, y) /\ XNum(P, i, y) < 3 * XDen(P, i) * x}

IsBoundary(P, y, x) ==
    \E i \in 1..Len(P) : Crosses(P, i, y) /\ NearCrossing(P, i, y, x)

\* Strictly between the crossings of an even/odd pair, and on none of them.
IsInterior(P, y, x) ==
    /\ Cardinality(CrossingsLeft(P, y, x)) % 2 = 1
    /\ ~IsBoundary(P, y, x)

\* Twice the signed area, in thirds: zero for a polygon that is a line or a point.
Area2(P) ==
    (P[2][1] - P[1][1]) * (P[3][2] - P[1][2])
        - (P[3][1] - P[1][1]) * (P[2][2] - P[1][2])

Degenerate(P) == Area2(P) = 0

Region(kind, x, y) == [kind |-> kind, x |-> x, y |-> y]

\* RegionList::regions(): row by row, the classified pixels of each run.  A
\* degenerate polygon yields no region.
regions(P) ==
    IF Degenerate(P) THEN {}
    ELSE LET rows == MinOf(YsOf(P))..MaxOf(YsOf(P))
             cols == 0..(MaxCoord + 1)
         IN  {Region("Boundary", x, y) : <<x, y>> \in
                  {q \in cols \X rows : IsBoundary(P, q[2], q[1])}}
             \cup
             {Region("Interior", x, y) : <<x, y>> \in
                  {q \in cols \X rows : IsInterior(P, q[2], q[1])}}

\* buffer.get_pixel_mut(x as u32, 199 - (y as u32))
shade_target_unflipped(x, y) == <<x, BufferHeight - y>>
shade_target(x, y) == <<x, LastRow - y>>

\* Buffer::get_pixel_mut panics outside the buffer.
InBuffer(p) == p[1] \in 0..(BufferWidth - 1) /\ p[2] \in 0..(BufferHeight - 1)

InitRaster ==
    /\ LoopIdle
    /\ sp = Unused /\ dm = Unused /\ pr = Unused
    /\ rs \in [pc : {"start"},
               vertices : {v \in VertexLists :
                              \A i \in 1..(Len(v) - 1) : PtBefore(v[i], v[i + 1])},
               polygon : {<<>>}, list : {<<>>}, regions : {{}}, shaded : {{}}]

RsTryFrom ==
    /\ rs.pc = "start"
    /\ LET r == Polygon_try_from(rs.vertices) IN
       rs' = IF r[1] = "Err"
             THEN [rs EXCEPT !.pc = "construction_error"]
             ELSE [rs EXCEPT !.pc = "polygon", !.polygon = r[2]]
    /\ UNCHANGED <<loopvars, sp, dm, pr>>

RsPush ==
    /\ rs.pc = "polygon"
    /\ rs' = [rs EXCEPT !.pc = "pushed", !.list = <<rs.polygon>>]
    /\ UNCHANGED <<loopvars, sp, dm, pr>>

\* for region in region_list.regions(): shade every Boundary region.
RsShade ==
    /\ rs.pc = "pushed"
    /\ LET regs == regions(rs.list[1])
           targets == {shade_target(r.x, r.y) : r \in {q \in regs : q.kind = "Boundary"}}
       IN  rs' = [rs EXCEPT
                     !.pc = IF \A p \in targets : InBuffer(p) THEN "shaded" ELSE "panicked",
                     !.regions = regs,
                     !.shaded = {p \in targets : InBuffer(p)}]
    /\ UNCHANGED <<loopvars, sp, dm, pr>>

RsSave ==
    /\ rs.pc = "shaded"
    /\ rs' = [rs EXCEPT !.pc = "saved"]
    /\ UNCHANGED <<loopvars, sp, dm, pr>>

NextRaster == RsTryFrom \/ RsPush \/ RsShade \/ RsSave

SpecRaster == InitRaster /\ [][NextRaster]_vars

Rasterized == rs.pc \in {"shaded", "saved", "panicked"}
NonDegenerate(P) ==
    /\ Len(P) >= 3
    /\ \A i, j \in 1..Len(P) : i # j => P[i] # P[j]
    /\ Area2(P) # 0

-----------------------------------------------------------------------------
(* Two file-output runs, one after the other, with the same Options: what each
   frame's file holds.  The offscreen target is one RGBA pixel of u8 channels. *)

MaxPairFrames == 2
Channels == 1..4
Blank == <<0, 0, 0, 0>>

PairOptions == [seed |-> 7, output |-> <<"out">>, scale |-> 1, frames |-> MaxPairFrames]

\* The draw callbacks: what the caller's closure does with the Composition.
CallbackNames == {"nothing", "fill_red", "stroke_white"}

CallsOf(name) ==
    CASE name = "nothing" -> <<>>
      [] name = "fill_red" ->
            <<CallRec("set_color", <<Red>>), CallRec("move_to", <<P1>>),
              CallRec("line_to", <<P2>>), CallRec("fill", <<>>)>>
      [] name = "stroke_white" ->
            <<CallRec("move_to", <<P1>>), CallRec("line_to", <<P2>>),
              CallRec("stroke", <<>>)>>

ApplyCall(c, call) ==
    CASE call.op = "set_color" -> set_color(c, call.args[1])
      [] call.op = "move_to" -> move_to(c, call.args[1])
      [] call.op = "line_to" -> line_to(c, call.args[1])
      [] call.op = "fill" -> fill(c)
      [] call.op = "stroke" -> stroke(c)

RECURSIVE RunCalls(_, _)
RunCalls(c, cs) == IF cs = <<>> THEN c ELSE RunCalls(ApplyCall(c, Head(cs)), Tail(cs))

\* f(&FrameContext { frame }, &mut comp)
callback(name, c) == RunCalls(c, CallsOf(name))

\* The Elements a callback freezes in a frame of the run.
FrameElements(name) ==
    Frozen(callback(name, NewComposition(DefaultShader, PairOptions.scale)))

\* The device: an Element's color as u8 channels; a fill covers the pixel, a
\* stroke covers half of it and is blended with what the target holds.
Paint(color) == [k \in Channels |-> 255 * color[k]]

composite(target, e) ==
    IF e.raster_method[1] = "Fill"
    THEN Paint(e.color)
    ELSE [k \in Channels |-> (target[k] + Paint(e.color)[k]) \div 2]

\* Gpu::precompose: the Elements, in order, composited into the target.
RECURSIVE precompose(_, _)
precompose(target, elements) ==
    IF elements = <<>> THEN target
    ELSE precompose(composite(target, Head(elements)), Tail(elements))

\* Gpu::read_to_ram: the target as a flat row-major buffer of channels.
read_to_ram(target) == target

\* v.convert::<f32>(), Srgb::from_linear, convert::<u8>(): for channel value v,
\* round(255 * from_linear(v / 255)), tabulated for v = 0..255.
SrgbTable ==
    <<
         0,  13,  22,  28,  34,  38,  42,  46,  50,  53,  56,  59,  61,  64,  66,  69,
        71,  73,  75,  77,  79,  81,  83,  85,  86,  88,  90,  92,  93,  95,  96,  98,
        99, 101, 102, 104, 105, 106, 108, 109, 110, 112, 113, 114, 115, 117, 118, 119,
       120, 121, 122, 124, 125, 126, 127, 128, 129, 130, 131, 132, 133, 134, 135, 136,
       137, 138, 139, 140, 141, 142, 143, 144, 145, 146, 147, 148, 148, 149, 150, 151,
       152, 153, 154, 155, 155, 156, 157, 158, 159, 159, 160, 161, 162, 163, 163, 164,
       165, 166, 167, 167, 168, 169, 170, 170, 171, 172, 173, 173, 174, 175, 175, 176,
       177, 178, 178, 179, 180, 180, 181, 182, 182, 183, 184, 185, 185, 186, 187, 187,
       188, 189, 189, 190, 190, 191, 192, 192, 193, 194, 194, 195, 196, 196, 197, 197,
       198, 199, 199, 200, 200, 201, 202, 202, 203, 203, 204, 205, 205, 206, 206, 207,
       208, 208, 209, 209, 210, 210, 211, 212, 212, 213, 213, 214, 214, 215, 215, 216,
       216, 217, 218, 218, 219, 219, 220, 220, 221, 221, 222, 222, 223, 223, 224, 224,
       225, 226, 226, 227, 227, 228, 228, 229, 229, 230, 230, 231, 231, 232, 232, 233,
       233, 234, 234, 235, 235, 236, 236, 237, 237, 238, 238, 238, 239, 239, 240, 240,
       241, 241, 242, 242, 243, 243, 244, 244, 245, 245, 246, 246, 246, 247, 247, 248,
       248, 249, 249, 250, 250, 251, 251, 251, 252, 252, 253, 253, 254, 254, 255, 255
    >>

convert_channel(v) == SrgbTable[v + 1]

Range(s) == {s[i] : i \in 1..Len(s)}

collect_completion_order(raw, order) ==
    [j \in Channels |-> convert_channel(raw[order[j]])]

\* into_par_iter().map(..).collect(): the results in the order of the input,
\* whatever the order in which the workers finished.
collect(raw, order) == [k \in Channels |-> convert_channel(raw[k])]

image_save_append(fs, path, data) ==
    {f \in fs : f.path # path}
        \cup {[path |-> path,
               data |-> IF \E f \in fs : f.path = path
                        THEN (CHOOSE f \in fs : f.path = path).data \o data
                        ELSE data]}

\* image.save(path): the file is created or truncated, then holds the image.
image_save(fs, path, data) ==
    {f \in fs : f.path # path} \cup {[path |-> path, data |-> data]}

PairPath(i) == save_path_for_frame(PairOptions.output, PairOptions.seed, i)

InitPair ==
    /\ LoopIdle
    /\ sp = Unused /\ dm = Unused /\ rs = Unused
    /\ pr \in [pc : {"start"}, run : {1},
               scripts : [1..2 -> [1..MaxPairFrames -> CallbackNames]],
               frame : {0}, target : {Blank}, elements : {<<>>}, raw : {<<>>},
               order : {<<>>}, image : {<<>>}, files : {{}}, out1 : {{}}]

\* let mut buffer = self.gpu.build_texture(..)?: once per run, before the loop.
PairBuildTexture ==
    /\ pr.pc = "start"
    /\ pr' = [pr EXCEPT !.pc = "loop", !.frame = 0, !.target = Blank]
    /\ UNCHANGED <<loopvars, sp, dm, rs>>

PairCallback ==
    /\ pr.pc = "loop"
    /\ InRange(pr.frame, PairOptions.frames)
    /\ pr' = [pr EXCEPT !.pc = "precompose",
                        !.elements = FrameElements(pr.scripts[pr.run][pr.frame + 1])]
    /\ UNCHANGED <<loopvars, sp, dm, rs>>

PairPrecompose ==
    /\ pr.pc = "precompose"
    /\ pr' = [pr EXCEPT !.pc = "readback",
                        !.target = precompose(pr.target, pr.elements),
                        !.elements = <<>>]
    /\ UNCHANGED <<loopvars, sp, dm, rs>>

PairReadToRam ==
    /\ pr.pc = "readback"
    /\ pr' = [pr EXCEPT !.pc = "convert", !.raw = read_to_ram(pr.target)]
    /\ UNCHANGED <<loopvars, sp, dm, rs>>

\* A worker finishes the conversion of one channel not yet converted.
PairConvertChannel ==
    /\ pr.pc = "convert"
    /\ \E k \in Channels \ Range(pr.order) :
          pr' = [pr EXCEPT !.order = Append(pr.order, k)]
    /\ UNCHANGED <<loopvars, sp, dm, rs>>

\* collect() returns when every channel is converted.
PairCollect ==
    /\ pr.pc = "convert"
    /\ Range(pr.order) = Channels
    /\ pr' = [pr EXCEPT !.pc = "save", !.image = collect(pr.raw, pr.order)]
    /\ UNCHANGED <<loopvars, sp, dm, rs>>

PairSave ==
    /\ pr.pc = "save"
    /\ pr' = [pr EXCEPT !.pc = "loop",
                        !.files = image_save(pr.files, PairPath(pr.frame), pr.image),
                        !.frame = pr.frame + 1,
                        !.raw = <<>>, !.order = <<>>, !.image = <<>>]
    /\ UNCHANGED <<loopvars, sp, dm, rs>>

\* Ok(()) of the first run, then the second run is started.
PairNextRun ==
    /\ pr.pc = "loop"
    /\ ~InRange(pr.frame, PairOptions.frames)
    /\ pr.run = 1
    /\ pr' = [pr EXCEPT !.pc = "start", !.run = 2, !.out1 = pr.files]
    /\ UNCHANGED <<loopvars, sp, dm, rs>>

PairDone ==
    /\ pr.pc = "loop"
    /\ ~InRange(pr.frame, PairOptions.frames)
    /\ pr.run = 2
    /\ pr' = [pr EXCEPT !.pc = "done"]
    /\ UNCHANGED <<loopvars, sp, dm, rs>>

NextPair ==
    \/ PairBuildTexture \/ PairCallback \/ PairPrecompose \/ PairReadToRam
    \/ PairConvertChannel \/ PairCollect \/ PairSave \/ PairNextRun \/ PairDone

SpecPair == InitPair /\ [][NextPair]_vars

\* <output>/<seed>/<frame>.png of the runs' Options.
ExpectedPairFile(i) == <<"out", "7", ToString(i) \o ".png">>

\* C12: the channels of a frame are converted in any order; the frame's file is
\* written only when every channel is converted, and the converted buffer, and
\* the file, hold at every index k the conversion of read-back channel k,
\* whatever the order in which the workers finished.
C12_ConvertBeforeSave ==
    [][/\ pr'.files # pr.files => pr.pc = "save"
       /\ (pr.pc = "convert" /\ pr'.pc = "save") =>
             /\ Range(pr.order) = Channels
             /\ pr'.raw = pr.raw
             /\ \A k \in Channels : pr'.image[k] = SrgbTable[pr.raw[k] + 1]
       /\ (pr.pc = "save" /\ pr'.pc = "loop") =>
             /\ Range(pr.order) = Channels
             /\ \E f \in pr'.files :
                   /\ f.path = ExpectedPairFile(pr.frame)
                   /\ \A k \in Channels : f.data[k] = SrgbTable[pr.raw[k] + 1]]_vars

\* The second frame of a run, a white stroke over a red fill, converted by
\* workers that finished in the reverse of the channel order.
C12_Witness ==
    /\ pr.pc = "save"
    /\ pr.frame = 1
    /\ pr.order = <<4, 3, 2, 1>>
    /\ pr.raw = <<255, 127, 127, 255>>
    /\ pr.image = <<255, 187, 187, 255>>

C19_FrameIndependent ==
    pr.pc = "done" =>
        \A i \in 1..MaxPairFrames :
            FrameElements(pr.scripts[1][i]) = FrameElements(pr.scripts[2][i]) =>
                \A f \in pr.out1, g \in pr.files :
                    (f.path = ExpectedPairFile(i - 1) /\ g.path = ExpectedPairFile(i - 1))
                        => f.data = g.data

====
